---- MODULE Spec2Model ----
(***************************************************************************)
(* A model of y4mlib (package y4m): the YUV4MPEG2 stream reader/writer.    *)
(*                                                                         *)
(* A file is a sequence of bytes; a byte is written as a one-character     *)
(* string ("\n" is the newline, "NUL" the zero byte of a fresh make()).    *)
(* Go strings and []byte are sequences of such bytes.  An operation's      *)
(* outcome is its error: "nil", "EOF" (io.EOF), "ErrUnexpectedEOF"         *)
(* (io.ErrUnexpectedEOF), "format" (an errors.New / fmt.Errorf /           *)
(* strconv error), "ErrInvalidFormat", or "panic" (a Go run-time panic:    *)
(* integer divide by zero, slice bounds out of range).                     *)
(***************************************************************************)
EXTENDS Integers, Sequences, FiniteSets, TLC

\* Bounds of the model.
MaxWidth == 4
MaxHeight == 3
MaxFrames == 2
\* Crop is tried with offset + size up to this much beyond the frame.
MaxExcess == 1
\* The tagged fields of an input header line.
MaxFields == 2
\* The write operations on one output stream.
MaxWrites == 3
\* bufio.NewReader's buffer (4096 bytes in Go), scaled down so that files and
\* lines both shorter and longer than the buffer occur.
BufSize == 16

VARIABLES
    file,     \* the bytes of the input file behind Stream.file
    pos,      \* the read offset of Stream.file
    stream,   \* the fields of the input Stream
    last,     \* the last operation: its name, the offset before it, its results
    frame,    \* the Frame the caller holds
    outs,     \* the fields of the output Stream (NewStream)
    outfile   \* the bytes written to the output Stream's file

vars == <<file, pos, stream, last, frame, outs, outfile>>

---------------------------------------------------------------------------
\* Bytes and strings.

Min(a, b) == IF a < b THEN a ELSE b

\* The smallest multiple of k that is >= n (n >= 0, k > 0).
CeilTo(n, k) == ((n + k - 1) \div k) * k

Digits == <<"0", "1", "2", "3", "4", "5", "6", "7", "8", "9">>

IsDigit(c) == \E d \in 1..10 : Digits[d] = c

DigitVal(c) == (CHOOSE d \in 1..10 : Digits[d] = c) - 1

\* unicode.IsSpace, on the bytes the model uses.
IsSpace(c) == c \in {" ", "\t", "\n", "\r", "\f"}

\* The 1-based index of the first c in b, 0 when there is none.
RECURSIVE IndexFrom(_, _, _)
IndexFrom(b, c, i) ==
    IF i > Len(b) THEN 0
    ELSE IF b[i] = c THEN i
    ELSE IndexFrom(b, c, i + 1)

IndexByte(b, c) == IndexFrom(b, c, 1)

\* b[lo:hi] of Go (0-based, hi excluded) on a sequence with len = cap.
Slice(b, lo, hi) == SubSeq(b, lo + 1, hi)

\* bytes.Fields: the maximal runs of non-space bytes, in order.
Flush(acc, cur) == IF cur = <<>> THEN acc ELSE Append(acc, cur)

RECURSIVE FieldsFrom(_, _, _, _)
FieldsFrom(b, i, cur, acc) ==
    IF i > Len(b) THEN Flush(acc, cur)
    ELSE IF IsSpace(b[i]) THEN FieldsFrom(b, i + 1, <<>>, Flush(acc, cur))
    ELSE FieldsFrom(b, i + 1, Append(cur, b[i]), acc)

Fields(b) == FieldsFrom(b, 1, <<>>, <<>>)

\* strings.Split(s, sep) for a one-byte separator.
RECURSIVE SplitFrom(_, _, _, _, _)
SplitFrom(b, sep, i, cur, acc) ==
    IF i > Len(b) THEN Append(acc, cur)
    ELSE IF b[i] = sep THEN SplitFrom(b, sep, i + 1, <<>>, Append(acc, cur))
    ELSE SplitFrom(b, sep, i + 1, Append(cur, b[i]), acc)

Split(b, sep) == SplitFrom(b, sep, 1, <<>>, <<>>)

\* The value of a run of decimal digits.
RECURSIVE DigitsValue(_, _, _)
DigitsValue(b, i, acc) ==
    IF i > Len(b) THEN acc
    ELSE DigitsValue(b, i + 1, acc * 10 + DigitVal(b[i]))

\* strconv.Atoi on the digits after the sign: one or more decimal digits.
AtoiDigits(body, negative) ==
    IF Len(body) = 0 \/ \E i \in 1..Len(body) : ~IsDigit(body[i])
    THEN [err |-> "format", val |-> 0]
    ELSE [err |-> "nil",
          val |-> IF negative THEN 0 - DigitsValue(body, 1, 0)
                  ELSE DigitsValue(body, 1, 0)]

\* strconv.Atoi: an optional sign, then the digits.
Atoi(b) ==
    IF Len(b) > 0 /\ b[1] = "-" THEN AtoiDigits(Tail(b), TRUE)
    ELSE IF Len(b) > 0 /\ b[1] = "+" THEN AtoiDigits(Tail(b), FALSE)
    ELSE AtoiDigits(b, FALSE)

\* The decimal digits of n >= 0, without leading zeros.
RECURSIVE NatDigits(_)
NatDigits(n) ==
    IF n < 10 THEN <<Digits[n + 1]>>
    ELSE Append(NatDigits(n \div 10), Digits[(n % 10) + 1])

\* fmt's %d.
Itoa(n) == IF n < 0 THEN <<"-">> \o NatDigits(0 - n) ELSE NatDigits(n)

---------------------------------------------------------------------------
\* The stream header.

streamMagicString == <<"Y", "U", "V", "4", "M", "P", "E", "G", "2">>

Tag444 == <<"4", "4", "4">>
Tag422 == <<"4", "2", "2">>
Tag411 == <<"4", "1", "1">>
Tag420jpeg == <<"4", "2", "0", "j", "p", "e", "g">>
Tag420mpeg2 == <<"4", "2", "0", "m", "p", "e", "g", "2">>
Tag420paldv == <<"4", "2", "0", "p", "a", "l", "d", "v">>
TagMono == <<"m", "o", "n", "o">>
Tag444alpha == <<"4", "4", "4", "a", "l", "p", "h", "a">>

\* A chroma tag that is a key of neither subsampling table nor named anywhere
\* in the code.
TagOther == <<"4", "4", "0">>

\* The chroma tags the format defines.
ChromaTags ==
    {Tag444, Tag422, Tag411, Tag420jpeg, Tag420mpeg2, Tag420paldv, TagMono,
     Tag444alpha}

\* The map xSubsamplingFactor; a missing key reads as Go's zero value.
xSubsamplingFactor(c) ==
    CASE c = Tag444 -> 1
      [] c = Tag422 -> 2
      [] c = Tag411 -> 4
      [] c = Tag420jpeg -> 2
      [] c = Tag420mpeg2 -> 2
      [] c = Tag420paldv -> 2
      [] OTHER -> 0

\* The map ySubsamplingFactor.
ySubsamplingFactor(c) ==
    CASE c = Tag444 -> 1
      [] c = Tag422 -> 1
      [] c = Tag411 -> 1
      [] c = Tag420jpeg -> 2
      [] c = Tag420mpeg2 -> 2
      [] c = Tag420paldv -> 2
      [] OTHER -> 0

\* A *Ratio is <<N, D>>; the nil pointer is <<>>.
NilRatio == <<>>

\* new(Stream): every field at its zero value.
ZeroStream ==
    [Width |-> 0, Height |-> 0, FrameRate |-> NilRatio, Interlacing |-> <<>>,
     SampleAspectRatio |-> NilRatio, Chroma |-> <<>>, Metadata |-> <<>>,
     XSubsamplingFactor |-> 0, YSubsamplingFactor |-> 0,
     OriginalHeader |-> <<>>]

\* A bufio.Reader's ReadBytes('\n') on the bytes rest that follow the file
\* offset p, the first newline being byte idx of rest (0: none): the line
\* (newline included), the error, the file offset the reader's fills leave
\* (each fill reads up to BufSize bytes from the file), and r.Buffered().
ReadLine(p, rest, idx) ==
    IF idx = 0
    THEN [line |-> rest, err |-> "EOF", end |-> p + Len(rest), buffered |-> 0]
    ELSE [line |-> SubSeq(rest, 1, idx), err |-> "nil",
          end |-> p + Min(Len(rest), CeilTo(idx, BufSize)),
          buffered |-> Min(Len(rest), CeilTo(idx, BufSize)) - idx]

ReadRest(p, rest) == ReadLine(p, rest, IndexByte(rest, "\n"))

\* bufio.NewReader(file).ReadBytes('\n') with the file offset at p.
ReadBytes(f, p) ==
    ReadRest(p, IF p < Len(f) THEN SubSeq(f, p + 1, Len(f)) ELSE <<>>)

\* stringToRatio, from the two parsed parts.
RatioOf(n, d) ==
    IF n.err # "nil" THEN [err |-> n.err, val |-> NilRatio]
    ELSE IF d.err # "nil" THEN [err |-> d.err, val |-> NilRatio]
    ELSE [err |-> "nil", val |-> <<n.val, d.val>>]

RatioOfParts(parts) ==
    IF Len(parts) # 2 THEN [err |-> "format", val |-> NilRatio]
    ELSE RatioOf(Atoi(parts[1]), Atoi(parts[2]))

\* stringToRatio.
stringToRatio(b) == RatioOfParts(Split(b, ":"))

\* (*Ratio).String under fmt's %v: fmt prints a nil Stringer as <nil>.
RatioString(r) ==
    IF r = NilRatio THEN <<"<", "n", "i", "l", ">">>
    ELSE Itoa(r[1]) \o <<":">> \o Itoa(r[2])

\* ParseHeader's cases W and H: the field is assigned Atoi's value, then the
\* error returns.
SetWidth(st, n) == [err |-> n.err, s |-> [st EXCEPT !.Width = n.val]]

SetHeight(st, n) == [err |-> n.err, s |-> [st EXCEPT !.Height = n.val]]

\* ParseHeader's cases F and A: the ratio is assigned when it parsed.
SetFrameRate(st, r) ==
    IF r.err # "nil" THEN [err |-> r.err, s |-> st]
    ELSE [err |-> "nil", s |-> [st EXCEPT !.FrameRate = r.val]]

SetSampleAspectRatio(st, r) ==
    IF r.err # "nil" THEN [err |-> r.err, s |-> st]
    ELSE [err |-> "nil", s |-> [st EXCEPT !.SampleAspectRatio = r.val]]

\* One turn of ParseHeader's loop: the switch on the field's first byte.
ParseHeaderField(st, key, val) ==
    CASE key = "Y" -> [err |-> "nil", s |-> st]
      [] key = "W" -> SetWidth(st, Atoi(val))
      [] key = "H" -> SetHeight(st, Atoi(val))
      [] key = "F" -> SetFrameRate(st, stringToRatio(val))
      [] key = "I" -> [err |-> "nil", s |-> [st EXCEPT !.Interlacing = val]]
      [] key = "A" -> SetSampleAspectRatio(st, stringToRatio(val))
      [] key = "C" -> [err |-> "nil", s |-> [st EXCEPT !.Chroma = val]]
      [] key = "X" ->
            [err |-> "nil",
             s |-> [st EXCEPT !.Metadata = Append(st.Metadata, val)]]
      [] OTHER -> [err |-> "format", s |-> st]

\* ParseHeader's loop from field k, one being the outcome of the turn before.
RECURSIVE ParseHeaderFields(_, _, _)
ParseHeaderFields(one, fields, k) ==
    IF one.err # "nil" \/ k > Len(fields) THEN one
    ELSE ParseHeaderFields(
            ParseHeaderField(one.s, fields[k][1], Tail(fields[k])),
            fields, k + 1)

\* ParseHeader after the loop: the final seek to the end of the header line.
ParseHeaderEnd(rb, parsed) ==
    IF parsed.err # "nil"
    THEN [err |-> parsed.err, s |-> parsed.s, pos |-> rb.end]
    ELSE [err |-> "nil", s |-> parsed.s, pos |-> Len(rb.line)]

\* ParseHeader once the first line is read: the defaults, then the fields.
ParseHeaderLine(st, rb) ==
    IF rb.err # "nil" THEN [err |-> rb.err, s |-> st, pos |-> rb.end]
    ELSE ParseHeaderEnd(rb,
            ParseHeaderFields(
                [err |-> "nil",
                 s |-> [st EXCEPT !.OriginalHeader = rb.line,
                                  !.Chroma = Tag420jpeg,
                                  !.Interlacing = <<"?">>,
                                  !.FrameRate = <<0, 0>>,
                                  !.SampleAspectRatio = <<0, 0>>]],
                Fields(rb.line), 1))

\* Stream.ParseHeader on stream st over file f: the error, the stream's
\* fields and the file offset afterwards.
ParseHeader(f, st) == ParseHeaderLine(st, ReadBytes(f, 0))

\* Stream.Header: the header line the stream's fields serialize to.
RECURSIVE MetadataFields(_, _)
MetadataFields(md, k) ==
    IF k > Len(md) THEN <<>>
    ELSE <<" ", "X">> \o md[k] \o MetadataFields(md, k + 1)

\* Header with the F and A fields in each other's place.
Header_RatiosSwapped(st) ==
    streamMagicString
        \o <<" ", "W">> \o Itoa(st.Width)
        \o <<" ", "H">> \o Itoa(st.Height)
        \o <<" ", "C">> \o st.Chroma
        \o <<" ", "I">> \o st.Interlacing
        \o <<" ", "F">> \o RatioString(st.SampleAspectRatio)
        \o <<" ", "A">> \o RatioString(st.FrameRate)
        \o MetadataFields(st.Metadata, 1)
        \o <<"\n">>

Header(st) ==
    streamMagicString
        \o <<" ", "W">> \o Itoa(st.Width)
        \o <<" ", "H">> \o Itoa(st.Height)
        \o <<" ", "C">> \o st.Chroma
        \o <<" ", "I">> \o st.Interlacing
        \o <<" ", "F">> \o RatioString(st.FrameRate)
        \o <<" ", "A">> \o RatioString(st.SampleAspectRatio)
        \o MetadataFields(st.Metadata, 1)
        \o <<"\n">>

\* Stream.IsY4M: the first len(streamMagicString) bytes are the signature.
IsY4M(f) ==
    IF Len(f) = 0 THEN "EOF"
    ELSE IF Len(f) < Len(streamMagicString) THEN "ErrInvalidFormat"
    ELSE IF SubSeq(f, 1, Len(streamMagicString)) # streamMagicString
         THEN "ErrInvalidFormat"
    ELSE "nil"

\* Open after ParseHeader: the factors are looked up from the chroma.
OpenParsed(ph) ==
    IF ph.err # "nil" THEN [err |-> ph.err, s |-> ZeroStream, pos |-> ph.pos]
    ELSE [err |-> "nil",
          s |-> [ph.s EXCEPT
                   !.XSubsamplingFactor = xSubsamplingFactor(ph.s.Chroma),
                   !.YSubsamplingFactor = ySubsamplingFactor(ph.s.Chroma)],
          pos |-> ph.pos]

\* Open on a file with bytes f: the error, the stream and the file offset.
Open(f) ==
    IF IsY4M(f) # "nil" THEN [err |-> IsY4M(f), s |-> ZeroStream, pos |-> 0]
    ELSE OpenParsed(ParseHeader(f, ZeroStream))

---------------------------------------------------------------------------
\* Plane sizes.  A size is [err, val]: err is "panic" when the Go expression
\* divides by zero.

\* Stream.LumaPlaneSize.
LumaPlaneSize(st) == [err |-> "nil", val |-> st.Height * st.Width]

\* Stream.ChromaPlaneSize.
ChromaPlaneSize(st) ==
    IF st.Chroma = TagMono THEN [err |-> "nil", val |-> 0]
    ELSE IF st.XSubsamplingFactor = 0 \/ st.YSubsamplingFactor = 0
         THEN [err |-> "panic", val |-> 0]
    ELSE [err |-> "nil",
          val |-> ((st.Width * st.Height) \div st.XSubsamplingFactor)
                      \div st.YSubsamplingFactor]

\* Stream.AlphaPlaneSize.
AlphaPlaneSize(st) ==
    IF st.Chroma = Tag444alpha
    THEN [err |-> "nil", val |-> st.Width * st.Height]
    ELSE [err |-> "nil", val |-> 0]

\* Stream.FrameImageDataSize.
FrameImageDataSize(st) ==
    IF ChromaPlaneSize(st).err # "nil" THEN [err |-> "panic", val |-> 0]
    ELSE [err |-> "nil",
          val |-> LumaPlaneSize(st).val + 2 * ChromaPlaneSize(st).val
                      + AlphaPlaneSize(st).val]

---------------------------------------------------------------------------
\* Frames.

FrameMagic == <<"F", "R", "A", "M", "E">>

\* A nil *FrameHeader.
NilHeader ==
    [isNil |-> TRUE, MagicString |-> <<>>, I |-> <<>>, Metadata |-> <<>>,
     Raw |-> <<>>]

\* new(Frame), which also stands for a nil *Frame.  ChromaCap is cap(Cb) and
\* cap(Cr); Y and Alpha always have cap = len.
ZeroFrame ==
    [Header |-> NilHeader, Width |-> 0, Height |-> 0, Chroma |-> <<>>,
     Y |-> <<>>, Cb |-> <<>>, Cr |-> <<>>, Alpha |-> <<>>, ChromaCap |-> 0]

\* ToFirstFrame once the first line is read.
ToFirstFrameLine(rb) ==
    IF rb.err # "nil" THEN [err |-> rb.err, pos |-> rb.end]
    ELSE [err |-> "nil", pos |-> rb.end - rb.buffered]

\* Stream.ToFirstFrame.
ToFirstFrame(f) == ToFirstFrameLine(ReadBytes(f, 0))

\* SkipFrameHeader once the line is read.  b[0:5] and b[0:15] panic when the
\* line is shorter (cap(b) = len(b)).
SkipFrameHeaderLine(rb) ==
    IF rb.err # "nil" THEN [err |-> rb.err, pos |-> rb.end]
    ELSE IF Len(rb.line) < 5 THEN [err |-> "panic", pos |-> rb.end]
    ELSE IF Slice(rb.line, 0, 5) # FrameMagic
         THEN IF Len(rb.line) < 15 THEN [err |-> "panic", pos |-> rb.end]
              ELSE [err |-> "format", pos |-> rb.end]
    ELSE [err |-> "nil", pos |-> rb.end - rb.buffered]

\* Stream.SkipFrameHeader with the file offset at p.
SkipFrameHeader(f, p) == SkipFrameHeaderLine(ReadBytes(f, p))

\* SkipFrame after SkipFrameHeader: the relative seek by FrameImageDataSize.
SkipFrameData(h, size) ==
    IF h.err # "nil" THEN h
    ELSE IF size.err # "nil" THEN [err |-> "panic", pos |-> h.pos]
    ELSE [err |-> "nil", pos |-> h.pos + size.val]

\* Stream.SkipFrame.
SkipFrame(f, st, p) ==
    SkipFrameData(SkipFrameHeader(f, p), FrameImageDataSize(st))

\* The I field of a frame header: "format" unless val is three bytes from the
\* presentation, temporal and spatial sets.
IFieldErr(val) ==
    IF Len(val) # 3 THEN "format"
    ELSE IF val[1] \notin {"t", "T", "b", "B", "1", "2", "3"} THEN "format"
    ELSE IF val[2] \notin {"p", "i"} THEN "format"
    ELSE IF val[3] \notin {"p", "i", "?"} THEN "format"
    ELSE "nil"

\* The loop of ParseFrameHeader over hf[1:] (k is 1-based here).
RECURSIVE ParseFrameFields(_, _, _)
ParseFrameFields(h, hf, k) ==
    IF k > Len(hf) THEN [err |-> "nil", h |-> h]
    ELSE CASE hf[k][1] = "I" ->
                IF IFieldErr(Tail(hf[k])) # "nil"
                THEN [err |-> "format", h |-> NilHeader]
                ELSE ParseFrameFields([h EXCEPT !.I = Tail(hf[k])], hf, k + 1)
           [] hf[k][1] = "X" ->
                ParseFrameFields(
                    [h EXCEPT !.Metadata = Append(h.Metadata, Tail(hf[k]))],
                    hf, k + 1)
           [] OTHER -> ParseFrameFields(h, hf, k + 1)

\* ParseFrameHeaderEnd without the seek back over the reader's buffer.
ParseFrameHeaderEnd_NoSeek(rb, flds) ==
    IF flds.err # "nil"
    THEN [err |-> flds.err, pos |-> rb.end, h |-> NilHeader]
    ELSE [err |-> "nil", pos |-> rb.end, h |-> flds.h]

\* ParseFrameHeader after the loop: the seek back over the reader's buffer.
ParseFrameHeaderEnd(rb, flds) ==
    IF flds.err # "nil"
    THEN [err |-> flds.err, pos |-> rb.end, h |-> NilHeader]
    ELSE [err |-> "nil", pos |-> rb.end - rb.buffered, h |-> flds.h]

\* ParseFrameHeader once the line is read and split into fields.
ParseFrameHeaderLine(rb, hf) ==
    IF rb.err # "nil" THEN [err |-> rb.err, pos |-> rb.end, h |-> NilHeader]
    ELSE IF Len(hf) < 1
         THEN [err |-> "format", pos |-> rb.end, h |-> NilHeader]
    ELSE IF hf[1] # FrameMagic
         THEN [err |-> "format", pos |-> rb.end, h |-> NilHeader]
    ELSE ParseFrameHeaderEnd(rb,
            ParseFrameFields(
                [NilHeader EXCEPT !.isNil = FALSE, !.Raw = rb.line,
                                  !.MagicString = FrameMagic],
                hf, 2))

ParseFrameHeaderRead(rb) == ParseFrameHeaderLine(rb, Fields(rb.line))

\* Stream.ParseFrameHeader with the file offset at p.
ParseFrameHeader(f, p) == ParseFrameHeaderRead(ReadBytes(f, p))

\* io.ReadFull of size > 0 bytes at file offset p, n of them being there.
ReadFull(f, p, size, n) ==
    IF n = size
    THEN [err |-> "nil", pos |-> p + n, plane |-> SubSeq(f, p + 1, p + n)]
    ELSE IF n = 0 THEN [err |-> "EOF", pos |-> p, plane |-> <<>>]
    ELSE [err |-> "ErrUnexpectedEOF", pos |-> p + n, plane |-> <<>>]

\* Stream.grabPlane with the file offset at p.
grabPlane(f, p, size) ==
    IF size = 0 THEN [err |-> "nil", pos |-> p, plane |-> <<>>]
    ELSE IF size < 0 THEN [err |-> "panic", pos |-> p, plane |-> <<>>]
    ELSE ReadFull(f, p, size, Min(size, IF p < Len(f) THEN Len(f) - p ELSE 0))

\* ParseFrame's result when a step fails: a nil frame and the error.
ParseFailed(e, q) == [err |-> e, pos |-> q, frame |-> ZeroFrame]

\* ParseFrame after the four planes are read.
ParseFrameAlpha(st, hd, y, cb, cr, al) ==
    IF al.err # "nil" THEN ParseFailed(al.err, al.pos)
    ELSE [err |-> "nil", pos |-> al.pos,
          frame |-> [Header |-> hd.h, Width |-> st.Width,
                     Height |-> st.Height, Chroma |-> st.Chroma,
                     Y |-> y.plane, Cb |-> cb.plane, Cr |-> cr.plane,
                     Alpha |-> al.plane, ChromaCap |-> Len(cb.plane)]]

ParseFrameCr(f, st, hd, y, cb, cr) ==
    IF cr.err # "nil" THEN ParseFailed(cr.err, cr.pos)
    ELSE ParseFrameAlpha(st, hd, y, cb, cr,
                         grabPlane(f, cr.pos, AlphaPlaneSize(st).val))

ParseFrameCb(f, st, hd, y, cb) ==
    IF cb.err # "nil" THEN ParseFailed(cb.err, cb.pos)
    ELSE ParseFrameCr(f, st, hd, y, cb,
                      grabPlane(f, cb.pos, ChromaPlaneSize(st).val))

ParseFrameY(f, st, hd, y) ==
    IF y.err # "nil" THEN ParseFailed(y.err, y.pos)
    ELSE IF ChromaPlaneSize(st).err # "nil" THEN ParseFailed("panic", y.pos)
    ELSE ParseFrameCb(f, st, hd, y,
                      grabPlane(f, y.pos, ChromaPlaneSize(st).val))

ParseFrameHead(f, st, hd) ==
    IF hd.err # "nil" THEN ParseFailed(hd.err, hd.pos)
    ELSE ParseFrameY(f, st, hd, grabPlane(f, hd.pos, LumaPlaneSize(st).val))

\* Stream.ParseFrame with the file offset at p: the error, the file offset
\* afterwards and the frame.
ParseFrame(f, st, p) == ParseFrameHead(f, st, ParseFrameHeader(f, p))

\* The loop of CountFrames: n frames counted, sk the outcome of the SkipFrame
\* of this turn.
RECURSIVE CountLoop(_, _, _, _)
CountLoop(f, st, sk, n) ==
    IF sk.err = "EOF" THEN [err |-> "nil", pos |-> sk.pos, n |-> n]
    ELSE IF sk.err # "nil" THEN [err |-> sk.err, pos |-> sk.pos, n |-> -1]
    ELSE CountLoop(f, st, SkipFrame(f, st, sk.pos), n + 1)

\* CountFrames after its loop: the seek back to initPos, on this path only.
CountFramesEnd(initPos, loop) ==
    IF loop.err # "nil" THEN loop
    ELSE [err |-> "nil", pos |-> initPos, n |-> loop.n]

\* CountFrames after ToFirstFrame.
CountFramesFrom(f, st, initPos, first) ==
    IF first.err # "nil" THEN [err |-> first.err, pos |-> first.pos, n |-> -1]
    ELSE CountFramesEnd(initPos,
                        CountLoop(f, st, SkipFrame(f, st, first.pos), 0))

\* Stream.CountFrames with the file offset at p: the count, the error and the
\* file offset afterwards.
CountFrames(f, st, p) == CountFramesFrom(f, st, p, ToFirstFrame(f))

---------------------------------------------------------------------------
\* Frame.Crop.

\* b[x0:x1] is in range: 0 <= x0 <= x1 <= cap(b).
SliceOK(cp, x0, x1) == 0 <= x0 /\ x0 <= x1 /\ x1 <= cp

\* b[x0:x1] of a slice whose backing array is zero beyond len(b).
SliceCap(b, x0, x1) ==
    [i \in 1..(x1 - x0) |-> IF x0 + i <= Len(b) THEN b[x0 + i] ELSE "NUL"]

\* One of Crop's row loops from row y on, acc being the bytes appended so
\* far: row y is b[x0:x0+wid] with x0 = (y + y0)*W/div + xoff, W the frame's
\* width before the crop.  A slice out of range panics.
RECURSIVE CropRows(_, _, _, _, _, _, _, _, _, _)
CropRows(b, cp, W, div, rows, y0, xoff, wid, y, acc) ==
    IF y >= rows THEN [err |-> "nil", plane |-> acc]
    ELSE IF ~SliceOK(cp, (((y + y0) * W) \div div) + xoff,
                     (((y + y0) * W) \div div) + xoff + wid)
         THEN [err |-> "panic", plane |-> <<>>]
    ELSE CropRows(b, cp, W, div, rows, y0, xoff, wid, y + 1,
                  acc \o SliceCap(b, (((y + y0) * W) \div div) + xoff,
                                  (((y + y0) * W) \div div) + xoff + wid))

\* Crop's last assignments: f.Width = w, f.Height = h.
CropDone(f, w, h) ==
    [err |-> "nil", f |-> [f EXCEPT !.Width = w, !.Height = h]]

\* Crop after the alpha loop.
CropAlphaDone(f, w, h, na) ==
    IF na.err # "nil" THEN [err |-> "panic", f |-> f]
    ELSE CropDone([f EXCEPT !.Alpha = na.plane], w, h)

\* Crop's alpha part, run when len(f.Alpha) > 0.
CropAlpha(f, w, h, xOffset, yOffset) ==
    IF Len(f.Alpha) > 0
    THEN CropAlphaDone(f, w, h,
            CropRows(f.Alpha, Len(f.Alpha), f.Width, 1, h, yOffset, xOffset,
                     w, 0, <<>>))
    ELSE CropDone(f, w, h)

\* Crop after the chroma loop: f.Cb and f.Cr are replaced; the new slices
\* were made with capacity w/xss*h/yss.
CropChromaDone(f, w, h, xOffset, yOffset, xss, yss, ncb, ncr) ==
    IF ncb.err # "nil" \/ ncr.err # "nil" THEN [err |-> "panic", f |-> f]
    ELSE CropAlpha([f EXCEPT !.Cb = ncb.plane, !.Cr = ncr.plane,
                             !.ChromaCap = ((w \div xss) * h) \div yss],
                   w, h, xOffset, yOffset)

\* Crop's chroma part with the row stride f.Width/xss: row yt starts at
\* yt*(f.Width/xss) + xOffset/xss.
CropChroma_WidthStride(f, w, h, xOffset, yOffset, xss, yss) ==
    IF xss = 0 \/ yss = 0 THEN [err |-> "panic", f |-> f]
    ELSE CropChromaDone(f, w, h, xOffset, yOffset, xss, yss,
            CropRows(f.Cb, f.ChromaCap, (f.Width \div xss) * xss, xss,
                     h \div yss, yOffset \div yss, xOffset \div xss,
                     w \div xss, 0, <<>>),
            CropRows(f.Cr, f.ChromaCap, (f.Width \div xss) * xss, xss,
                     h \div yss, yOffset \div yss, xOffset \div xss,
                     w \div xss, 0, <<>>))

\* Crop's chroma part: the factors are looked up from f.Chroma, and w/xss
\* divides by zero when the tables do not hold it.
CropChroma(f, w, h, xOffset, yOffset, xss, yss) ==
    IF xss = 0 \/ yss = 0 THEN [err |-> "panic", f |-> f]
    ELSE CropChromaDone(f, w, h, xOffset, yOffset, xss, yss,
            CropRows(f.Cb, f.ChromaCap, f.Width, xss, h \div yss,
                     yOffset \div yss, xOffset \div xss, w \div xss, 0, <<>>),
            CropRows(f.Cr, f.ChromaCap, f.Width, xss, h \div yss,
                     yOffset \div yss, xOffset \div xss, w \div xss, 0, <<>>))

\* Crop after the luma loop: f.Y is replaced.
CropLumaDone(f, w, h, xOffset, yOffset, ny) ==
    IF ny.err # "nil" THEN [err |-> "panic", f |-> f]
    ELSE CropChroma([f EXCEPT !.Y = ny.plane], w, h, xOffset, yOffset,
                    xSubsamplingFactor(f.Chroma), ySubsamplingFactor(f.Chroma))

\* Crop without its check of the height.
Crop_NoHeightCheck(f, w, h, xOffset, yOffset) ==
    IF w + xOffset > f.Width THEN [err |-> "format", f |-> f]
    ELSE CropLumaDone(f, w, h, xOffset, yOffset,
            CropRows(f.Y, Len(f.Y), f.Width, 1, h, yOffset, xOffset, w, 0,
                     <<>>))

\* Frame.Crop for non-negative arguments: the error and the frame afterwards.
Crop(f, w, h, xOffset, yOffset) ==
    IF w + xOffset > f.Width THEN [err |-> "format", f |-> f]
    ELSE IF h + yOffset > f.Height THEN [err |-> "format", f |-> f]
    ELSE CropLumaDone(f, w, h, xOffset, yOffset,
            CropRows(f.Y, Len(f.Y), f.Width, 1, h, yOffset, xOffset, w, 0,
                     <<>>))

---------------------------------------------------------------------------
\* Input files: a header line, k frame records and a tail.

\* The bytes plane data is drawn from; a newline and an F are among them.
DataAlphabet == <<"a", "\n", "b", "F", "c", "d", "e">>

\* The n data bytes of frame j.
FrameData(n, j) ==
    [i \in 1..n |-> DataAlphabet[((i + 3 * j) % Len(DataAlphabet)) + 1]]

\* The header line of a w x h stream of chroma c; no C field when c is <<>>.
InputHeader(w, h, c) ==
    streamMagicString \o <<" ", "W">> \o Itoa(w) \o <<" ", "H">> \o Itoa(h)
        \o (IF c = <<>> THEN <<>> ELSE <<" ", "C">> \o c) \o <<"\n">>

\* The format's plane geometry for a w x h frame of chroma c: 4:4:4 with
\* alpha has full-size chroma planes and a full-size alpha plane, mono has
\* neither, and a header line without a C field (c = <<>>) declares 420jpeg.
FormatChromaSize(w, h, c) ==
    CASE c = TagMono -> 0
      [] c = Tag444alpha -> w * h
      [] c = <<>> -> ((w * h) \div 2) \div 2
      [] c = TagOther -> 0
      [] OTHER -> ((w * h) \div xSubsamplingFactor(c)) \div ySubsamplingFactor(c)

FormatAlphaSize(w, h, c) == IF c = Tag444alpha THEN w * h ELSE 0

\* The size of one frame's plane data on the wire.
WireFrameSize(w, h, c) ==
    w * h + 2 * FormatChromaSize(w, h, c) + FormatAlphaSize(w, h, c)

\* The frame header lines of well-formed records: the bare magic, and a line
\* with an I field and a metadata field, longer than the reader's buffer.
FrameHeaderLines ==
    {FrameMagic \o <<"\n">>,
     FrameMagic \o <<" ", "I", "t", "p", "p", " ", "X", "m", "e", "t", "a",
                     "=", "1", "2", "3", "4">> \o <<"\n">>}

\* k well-formed frame records of n data bytes each under header line hl.
RECURSIVE Records(_, _, _)
Records(hl, n, k) ==
    IF k = 0 THEN <<>>
    ELSE Records(hl, n, k - 1) \o hl \o FrameData(n, k)

\* Lines that are no frame header: one shorter than 15 bytes, one longer.
BadLines ==
    {<<"B", "O", "G", "U", "S", "\n">>,
     <<"N", "O", "T", "-", "A", "-", "F", "R", "A", "M", "E", "-", "L", "I",
       "N", "E", "\n">>}

\* The tails of k >= 1 good records: the last record cut short by its last
\* byte, by all its data, or inside its header line.
CutShort(good, n) ==
    {SubSeq(good, 1, Len(good) - 1),
     SubSeq(good, 1, Len(good) - n),
     SubSeq(good, 1, Len(good) - n - 1)}

\* A frame header line that starts with a space: FRAME is its first field,
\* not its first five bytes.
IndentedLines ==
    {<<" ">> \o FrameMagic
        \o <<" ", "X", "m", "e", "t", "a", "=", "1", "2", "3", "4", "\n">>}

\* What follows the header line: k well-formed records (good) and then
\* nothing, or a line that is no frame header and a record after it, or a
\* record under an indented header line, or the last record cut short.
Bodies(hl, n, k, good) ==
    {good}
        \cup {good \o bad \o hl \o FrameData(n, k + 1) : bad \in BadLines}
        \cup {good \o il \o FrameData(n, k + 1) : il \in IndentedLines}
        \cup (IF k = 0 THEN {} ELSE CutShort(good, n))

\* The chroma choices of input header lines: every tag, 420jpeg by default,
\* and a tag the tables do not hold.
InputChromas == (ChromaTags \ {Tag420jpeg}) \cup {<<>>, TagOther}

InputShapes ==
    (1..MaxWidth) \X (1..MaxHeight) \X InputChromas \X FrameHeaderLines
        \X (0..MaxFrames)

FilesOfShape(w, h, c, hl, k) ==
    {InputHeader(w, h, c) \o body :
        body \in Bodies(hl, WireFrameSize(w, h, c), k,
                        Records(hl, WireFrameSize(w, h, c), k))}

InputFiles ==
    UNION {FilesOfShape(sh[1], sh[2], sh[3], sh[4], sh[5]) : sh \in InputShapes}

---------------------------------------------------------------------------
\* Traversal of an opened input stream.

\* A run-time panic ends the program.
Running == last.err # "panic"

Done(op, pre, err, n) == [op |-> op, pre |-> pre, err |-> err, n |-> n]

\* The stream is the one Open returned for the file.
Opened(f, o) ==
    /\ o.err = "nil"
    /\ file = f
    /\ stream = o.s
    /\ pos = o.pos

Init ==
    /\ \E f \in InputFiles : Opened(f, Open(f))
    /\ last = Done("Open", 0, "nil", 0)
    /\ frame = ZeroFrame
    /\ outs = ZeroStream
    /\ outfile = <<>>

\* An operation that moves the file offset and returns an error (and a count).
Moves(op, r, n) ==
    /\ pos' = r.pos
    /\ last' = Done(op, pos, r.err, n)

DoToFirstFrame ==
    /\ Running
    /\ Moves("ToFirstFrame", ToFirstFrame(file), 0)
    /\ UNCHANGED <<file, stream, frame, outs, outfile>>

DoSkipFrameHeader ==
    /\ Running
    /\ Moves("SkipFrameHeader", SkipFrameHeader(file, pos), 0)
    /\ UNCHANGED <<file, stream, frame, outs, outfile>>

DoSkipFrame ==
    /\ Running
    /\ Moves("SkipFrame", SkipFrame(file, stream, pos), 0)
    /\ UNCHANGED <<file, stream, frame, outs, outfile>>

\* The caller receives the header (nil on an error).
Parsed(op, r, fr) ==
    /\ Moves(op, r, 0)
    /\ frame' = fr

DoParseFrameHeader ==
    /\ Running
    /\ \E r \in {ParseFrameHeader(file, pos)} :
          Parsed("ParseFrameHeader", r, [ZeroFrame EXCEPT !.Header = r.h])
    /\ UNCHANGED <<file, stream, outs, outfile>>

DoParseFrame ==
    /\ Running
    /\ \E r \in {ParseFrame(file, stream, pos)} : Parsed("ParseFrame", r, r.frame)
    /\ UNCHANGED <<file, stream, outs, outfile>>

CountedFrames(r) == Moves("CountFrames", r, r.n)

DoCountFrames ==
    /\ Running
    /\ CountedFrames(CountFrames(file, stream, pos))
    /\ UNCHANGED <<file, stream, frame, outs, outfile>>

Next ==
    \/ DoToFirstFrame
    \/ DoSkipFrameHeader
    \/ DoSkipFrame
    \/ DoParseFrameHeader
    \/ DoParseFrame
    \/ DoCountFrames

Spec == Init /\ [][Next]_vars

---------------------------------------------------------------------------
\* What a file holds, read off its bytes by the format's rules.

\* The well-formed frame header lines that start at file offset p.
HeaderLinesAt(f, p) ==
    {hl \in FrameHeaderLines :
        p + Len(hl) <= Len(f) /\ SubSeq(f, p + 1, p + Len(hl)) = hl}

\* The length of the frame header line at file offset p.
HeaderLenAt(f, p) == Len(CHOOSE hl \in HeaderLinesAt(f, p) : TRUE)

\* A frame header line starts at p (nothing is said of the data after it).
FrameBeginsAt(f, p) == HeaderLinesAt(f, p) # {}

\* A whole frame record starts at p: a header line and n data bytes.
RecordAt(f, p, n) ==
    FrameBeginsAt(f, p) /\ p + HeaderLenAt(f, p) + n <= Len(f)

CountMore(c) == IF c < 0 THEN -1 ELSE c + 1

\* k when the bytes of f from offset p on are exactly k whole records of n
\* data bytes each, -1 when they are not a sequence of whole records.
RECURSIVE RecordCount(_, _, _)
RecordCount(f, p, n) ==
    IF p = Len(f) THEN 0
    ELSE IF ~RecordAt(f, p, n) THEN -1
    ELSE CountMore(RecordCount(f, p + HeaderLenAt(f, p) + n, n))

\* The data size of one frame of the open stream, by the format's geometry.
WireSize == WireFrameSize(stream.Width, stream.Height, stream.Chroma)

\* The number of frames of the open file when it is a header line followed
\* by whole well-formed records only, -1 otherwise.
FrameCount == RecordCount(file, Len(stream.OriginalHeader), WireSize)

\* A line (newline-terminated) starts at p and does not begin with FRAME.
OtherLineAt(f, p) ==
    /\ p < Len(f)
    /\ \E i \in (p + 1)..Len(f) : f[i] = "\n"
    /\ ~(p + 5 <= Len(f) /\ SubSeq(f, p + 1, p + 5) = FrameMagic)

\* The chroma tags the subsampling tables hold.
TableChromas ==
    {Tag444, Tag422, Tag411, Tag420jpeg, Tag420mpeg2, Tag420paldv}

---------------------------------------------------------------------------
\* Claims about traversal (specification Spec).

\* C1: on a file that is a header line followed by exactly k well-formed
\* frame records, CountFrames called at any file offset returns k and no
\* error, and leaves the file offset where it was before the call.
C1_CountFramesCountsAndRestores ==
    (last.op = "CountFrames" /\ FrameCount >= 0) =>
        (last.err = "nil" /\ last.n = FrameCount /\ pos = last.pre)

\* C1 holds of the code for the chromas whose plane sizes the code computes:
\* the tags of the subsampling tables and mono.
CountFramesOnSizedChromas ==
    (/\ last.op = "CountFrames"
     /\ FrameCount >= 0
     /\ stream.Chroma \in TableChromas \cup {TagMono}) =>
        (last.err = "nil" /\ last.n = FrameCount /\ pos = last.pre)

\* C2: after any CountFrames call that returns, with or without an error, the
\* file offset is the one before the call.
C2_CountFramesRestoresOnError ==
    (last.op = "CountFrames" /\ last.err # "panic") => pos = last.pre

\* C3: when the line at the file offset does not begin with FRAME, each of
\* SkipFrameHeader, SkipFrame, ParseFrameHeader and ParseFrame returns a
\* format error and leaves the file offset where it was before the call.
C3_BadMagicLeavesOffset ==
    (/\ last.op \in {"SkipFrameHeader", "SkipFrame", "ParseFrameHeader",
                     "ParseFrame"}
     /\ OtherLineAt(file, last.pre)) =>
        (last.err = "format" /\ pos = last.pre)

\* The planes of the frame record at offset p, as the format lays them out:
\* the header line, then Y, Cb, Cr of ysize, csize, csize bytes.
PlanesAt(f, p, ysize, csize) ==
    [Y |-> SubSeq(f, p + HeaderLenAt(f, p) + 1, p + HeaderLenAt(f, p) + ysize),
     Cb |-> SubSeq(f, p + HeaderLenAt(f, p) + ysize + 1,
                   p + HeaderLenAt(f, p) + ysize + csize),
     Cr |-> SubSeq(f, p + HeaderLenAt(f, p) + ysize + csize + 1,
                   p + HeaderLenAt(f, p) + ysize + 2 * csize)]

\* The size of a chroma plane of the open stream for a table chroma.
TableChromaSize ==
    ((stream.Width * stream.Height) \div stream.XSubsamplingFactor)
        \div stream.YSubsamplingFactor

\* C8: ParseFrame called at the start of a well-formed frame record of a
\* stream whose chroma is a tag of the subsampling tables succeeds, returns
\* Y of Width*Height bytes, Cb and Cr of Width*Height/xs/ys bytes each, read
\* in that order from just after the header line, an empty Alpha, and the
\* stream's Width, Height and Chroma, and leaves the file offset at the
\* start of the next record: header-line length + FrameImageDataSize on.
C8_ParseFrameReadsPlanesInOrder ==
    (/\ last.op = "ParseFrame"
     /\ stream.Chroma \in TableChromas
     /\ RecordAt(file, last.pre, WireSize)) =>
        (/\ last.err = "nil"
         /\ Len(frame.Y) = stream.Width * stream.Height
         /\ Len(frame.Cb) = TableChromaSize
         /\ Len(frame.Cr) = TableChromaSize
         /\ Len(frame.Alpha) = 0
         /\ frame.Y = PlanesAt(file, last.pre, stream.Width * stream.Height,
                               TableChromaSize).Y
         /\ frame.Cb = PlanesAt(file, last.pre, stream.Width * stream.Height,
                                TableChromaSize).Cb
         /\ frame.Cr = PlanesAt(file, last.pre, stream.Width * stream.Height,
                                TableChromaSize).Cr
         /\ frame.Header.Raw
              = SubSeq(file, last.pre + 1, last.pre + HeaderLenAt(file, last.pre))
         /\ frame.Width = stream.Width
         /\ frame.Height = stream.Height
         /\ frame.Chroma = stream.Chroma
         /\ FrameImageDataSize(stream).err = "nil"
         /\ pos = last.pre + HeaderLenAt(file, last.pre)
                    + FrameImageDataSize(stream).val)

\* A ParseFrame of a 422 record with non-empty chroma planes, not the first
\* record of its file, has returned.
C8_Witness ==
    /\ last.op = "ParseFrame"
    /\ stream.Chroma = Tag422
    /\ RecordAt(file, last.pre, WireSize)
    /\ last.err = "nil"
    /\ Len(frame.Cb) > 0
    /\ last.pre > Len(stream.OriginalHeader)

\* C9: ParseFrame and SkipFrame report a clean end of stream (no byte where
\* the next frame header would start) as io.EOF, and a frame that began but
\* whose header line or planes end early as an error that is not io.EOF.
C9_TruncationIsNotEOF ==
    (last.op \in {"ParseFrame", "SkipFrame"}) =>
        (/\ (last.pre = Len(file)) => (last.err = "EOF")
         /\ (/\ last.pre < Len(file)
             /\ SubSeq(file, last.pre + 1, Min(Len(file), last.pre + 5))
                  = SubSeq(FrameMagic, 1, Min(5, Len(file) - last.pre))
             /\ ~RecordAt(file, last.pre, WireSize))
                => (last.err \notin {"EOF", "nil"}))

\* C10: on a stream opened with a chroma tag of the fixed set and positive
\* width and height, the plane-size operations return: LumaPlaneSize =
\* Width*Height; ChromaPlaneSize = 0 for mono, Width*Height/xs/ys otherwise;
\* AlphaPlaneSize = Width*Height for 444alpha, 0 otherwise; and
\* FrameImageDataSize = LumaPlaneSize + 2*ChromaPlaneSize + AlphaPlaneSize.
C10_PlaneSizes ==
    (stream.Chroma \in ChromaTags /\ stream.Width > 0 /\ stream.Height > 0) =>
        (/\ LumaPlaneSize(stream) =
                [err |-> "nil", val |-> stream.Width * stream.Height]
         /\ ChromaPlaneSize(stream).err = "nil"
         /\ (stream.Chroma = TagMono) => (ChromaPlaneSize(stream).val = 0)
         /\ AlphaPlaneSize(stream) =
                [err |-> "nil",
                 val |-> IF stream.Chroma = Tag444alpha
                         THEN stream.Width * stream.Height ELSE 0]
         /\ FrameImageDataSize(stream).err = "nil"
         /\ FrameImageDataSize(stream).val =
                LumaPlaneSize(stream).val + 2 * ChromaPlaneSize(stream).val
                    + AlphaPlaneSize(stream).val)

\* C11: on a stream opened with a chroma tag that the subsampling tables do
\* not hold, both factors are 0, ChromaPlaneSize and FrameImageDataSize
\* return, the chroma plane size is 0, and SkipFrame, ParseFrame and
\* CountFrames complete (they return, with or without an error).
C11_UnknownChromaSizesAreZero ==
    (stream.Chroma \notin TableChromas) =>
        (/\ stream.XSubsamplingFactor = 0
         /\ stream.YSubsamplingFactor = 0
         /\ ChromaPlaneSize(stream) = [err |-> "nil", val |-> 0]
         /\ FrameImageDataSize(stream).err = "nil"
         /\ (last.op \in {"SkipFrame", "ParseFrame", "CountFrames"})
                => (last.err # "panic"))

\* SkipFrame from the offset of the last call leaves the file offset where
\* that call left it, and returns no error.
SkipFrameAgrees ==
    SkipFrame(file, stream, last.pre) = [err |-> "nil", pos |-> pos]

\* C15: from any file offset at which ParseFrame succeeds, SkipFrame started
\* at the same offset succeeds too and leaves the file offset at the same
\* final position.
C15_SkipFrameMovesAsParseFrame ==
    (last.op = "ParseFrame" /\ last.err = "nil") => SkipFrameAgrees

\* The same from the start of a well-formed frame record.
SkipFrameMovesAsParseFrameOnRecords ==
    (/\ last.op = "ParseFrame"
     /\ last.err = "nil"
     /\ RecordAt(file, last.pre, WireSize)) => SkipFrameAgrees

---------------------------------------------------------------------------
\* Cropping a frame the caller holds (specification SpecCrop).

Letters ==
    <<"a", "b", "c", "d", "e", "f", "g", "h", "i", "j", "k", "l", "m", "n",
      "o", "p", "q", "r", "s", "t", "u", "v", "w", "x", "y", "z">>

\* n plane bytes, byte i being letter i + off (cyclically).
PlaneBytes(n, off) ==
    [i \in 1..n |-> Letters[((i - 1 + off) % Len(Letters)) + 1]]

\* A decoded w x h frame of chroma c: its planes have the format's sizes.
MakeFrame(w, h, c) ==
    [Header |-> [NilHeader EXCEPT !.isNil = FALSE, !.MagicString = FrameMagic,
                                  !.Raw = FrameMagic \o <<"\n">>],
     Width |-> w, Height |-> h, Chroma |-> c,
     Y |-> PlaneBytes(w * h, 0),
     Cb |-> PlaneBytes(FormatChromaSize(w, h, c), 5),
     Cr |-> PlaneBytes(FormatChromaSize(w, h, c), 11),
     Alpha |-> PlaneBytes(FormatAlphaSize(w, h, c), 17),
     ChromaCap |-> FormatChromaSize(w, h, c)]

\* The arguments Crop is called with on frame f: <<w, h, xOffset, yOffset>>.
CropArgs(f) ==
    {a \in (0..(f.Width + MaxExcess)) \X (0..(f.Height + MaxExcess))
            \X (0..(f.Width + MaxExcess)) \X (0..(f.Height + MaxExcess)) :
        a[1] + a[3] <= f.Width + MaxExcess /\ a[2] + a[4] <= f.Height + MaxExcess}

Cropped(before, args, err) ==
    [op |-> "Crop", err |-> err, args |-> args, before |-> before]

\* No call on the frame is on record.
NoCall ==
    [op |-> "NewFrame", err |-> "nil", args |-> <<0, 0, 0, 0>>,
     before |-> ZeroFrame]

InitCrop ==
    /\ \E w \in 1..MaxWidth, h \in 1..MaxHeight, c \in ChromaTags :
          frame = MakeFrame(w, h, c)
    /\ last = NoCall
    /\ file = <<>>
    /\ pos = 0
    /\ stream = ZeroStream
    /\ outs = ZeroStream
    /\ outfile = <<>>

CropStep(args, r) ==
    /\ frame' = r.f
    /\ last' = Cropped(frame, args, r.err)

DoCrop ==
    /\ last = NoCall
    /\ \E a \in CropArgs(frame) :
          CropStep(a, Crop(frame, a[1], a[2], a[3], a[4]))
    /\ UNCHANGED <<file, pos, stream, outs, outfile>>

\* The caller goes on with the frame as the returned call left it; what the
\* frame was before the call, and the call's arguments, are dropped.
DoKeepFrame ==
    /\ last.op = "Crop"
    /\ Running
    /\ last' = NoCall
    /\ UNCHANGED <<file, pos, stream, frame, outs, outfile>>

NextCrop == DoCrop \/ DoKeepFrame

SpecCrop == InitCrop /\ [][NextCrop]_vars

---------------------------------------------------------------------------
\* Claims about Crop (specification SpecCrop).

\* The plane lengths of f are those of the format's geometry for f's own
\* Width, Height and Chroma.
LengthInvariant(f) ==
    /\ Len(f.Y) = f.Width * f.Height
    /\ Len(f.Cb) = FormatChromaSize(f.Width, f.Height, f.Chroma)
    /\ Len(f.Cr) = FormatChromaSize(f.Width, f.Height, f.Chroma)
    /\ Len(f.Alpha) = FormatAlphaSize(f.Width, f.Height, f.Chroma)

\* The last Crop's arguments are within its frame's bounds.
InBounds ==
    /\ last.args[1] + last.args[3] <= last.before.Width
    /\ last.args[2] + last.args[4] <= last.before.Height

\* C4: Crop called with xOffset + w > Width or yOffset + h > Height returns
\* an error and leaves every field of the frame as it was.
C4_CropOutOfBoundsLeavesFrame ==
    (last.op = "Crop" /\ ~InBounds) =>
        (last.err = "format" /\ frame = last.before)

\* An out-of-bounds Crop of a frame with chroma planes has returned: only
\* the height is exceeded.
C4_Witness ==
    /\ last.op = "Crop"
    /\ last.args[1] + last.args[3] <= last.before.Width
    /\ last.args[2] + last.args[4] > last.before.Height
    /\ last.args[1] > 0
    /\ Len(last.before.Cb) > 0
    /\ last.err = "format"

\* C5: on a frame whose plane lengths match the format's geometry, with any
\* chroma tag of the fixed set, every Crop within the bounds completes and
\* leaves len(Y) = w*h, len(Cb) = len(Cr) = the chroma plane size of w x h,
\* len(Alpha) = the alpha plane size of w x h, Width = w and Height = h.
C5_CropKeepsLengths ==
    (/\ last.op = "Crop"
     /\ InBounds
     /\ last.before.Chroma \in ChromaTags
     /\ LengthInvariant(last.before)) =>
        (/\ last.err = "nil"
         /\ frame.Width = last.args[1]
         /\ frame.Height = last.args[2]
         /\ LengthInvariant(frame))

\* Bytes [x0, x0 + n) of the source plane b; "?" stands where b has none.
SourceBytes(b, x0, n) ==
    [i \in 1..n |-> IF x0 + i <= Len(b) THEN b[x0 + i] ELSE "?"]

\* The concatenation for y in 0..rows-1 of the source bytes
\* [(y + y0)*stride + xoff, + wid) of plane b.
RECURSIVE RowsOf(_, _, _, _, _, _)
RowsOf(b, stride, rows, y0, xoff, wid) ==
    IF rows <= 0 THEN <<>>
    ELSE RowsOf(b, stride, rows - 1, y0, xoff, wid)
            \o SourceBytes(b, (rows - 1 + y0) * stride + xoff, wid)

\* The chroma rows of the last Crop with the source row stride W/xs.
ChromaRowsOf(b, f, a) ==
    RowsOf(b, f.Width \div xSubsamplingFactor(f.Chroma),
           a[2] \div ySubsamplingFactor(f.Chroma),
           a[4] \div ySubsamplingFactor(f.Chroma),
           a[3] \div xSubsamplingFactor(f.Chroma),
           a[1] \div xSubsamplingFactor(f.Chroma))

\* The last call is an in-bounds Crop of a frame of a table chroma whose
\* plane lengths match its geometry.
CroppedInBounds ==
    /\ last.op = "Crop"
    /\ InBounds
    /\ last.before.Chroma \in TableChromas
    /\ LengthInvariant(last.before)

\* The planes after the last Crop are the rows the stride W/xs selects.
RowsAsClaimed ==
    /\ last.err = "nil"
    /\ frame.Y = RowsOf(last.before.Y, last.before.Width, last.args[2],
                        last.args[4], last.args[3], last.args[1])
    /\ (Len(last.before.Alpha) > 0) =>
          (frame.Alpha = RowsOf(last.before.Alpha, last.before.Width,
                                last.args[2], last.args[4], last.args[3],
                                last.args[1]))
    /\ frame.Cb = ChromaRowsOf(last.before.Cb, last.before, last.args)
    /\ frame.Cr = ChromaRowsOf(last.before.Cr, last.before, last.args)

\* C14: after an in-bounds Crop(w, h, xOffset, yOffset) of a frame of width
\* W with factors (xs, ys), Y (and Alpha when present) is the concatenation
\* for y in 0..h-1 of source bytes [(y+yOffset)*W + xOffset, +w), and Cb and
\* Cr are the concatenation for y in 0..h/ys-1 of source bytes
\* [(y + yOffset/ys)*(W/xs) + xOffset/xs, + w/xs), for every W.
C14_CropCopiesRows == CroppedInBounds => RowsAsClaimed

\* The concatenation for y in 0..rows-1 of the source bytes
\* [((y + y0)*W)/div + xoff, + wid) of plane b.
RECURSIVE RowsByProduct(_, _, _, _, _, _, _)
RowsByProduct(b, W, div, rows, y0, xoff, wid) ==
    IF rows <= 0 THEN <<>>
    ELSE RowsByProduct(b, W, div, rows - 1, y0, xoff, wid)
            \o SourceBytes(b, (((rows - 1 + y0) * W) \div div) + xoff, wid)

\* The chroma rows of the last Crop, row yt starting at (yt*W)/xs.
ChromaRowsByProduct(b, f, a) ==
    RowsByProduct(b, f.Width, xSubsamplingFactor(f.Chroma),
                  a[2] \div ySubsamplingFactor(f.Chroma),
                  a[4] \div ySubsamplingFactor(f.Chroma),
                  a[3] \div xSubsamplingFactor(f.Chroma),
                  a[1] \div xSubsamplingFactor(f.Chroma))

\* C14, amended: after an in-bounds Crop(w, h, xOffset, yOffset) of a frame
\* of width W with factors (xs, ys), Y (and Alpha when present) is the
\* concatenation for y in 0..h-1 of source bytes [(y+yOffset)*W + xOffset,
\* +w), and Cb and Cr are the concatenation for y in 0..h/ys-1 of source
\* bytes [((y + yOffset/ys)*W)/xs + xOffset/xs, + w/xs): the product of row
\* and original width is divided by xs, which is the stride W/xs only when
\* W is a multiple of xs.
C14_CropCopiesRowsByProduct ==
    CroppedInBounds =>
        (/\ last.err = "nil"
         /\ frame.Y = RowsOf(last.before.Y, last.before.Width, last.args[2],
                             last.args[4], last.args[3], last.args[1])
         /\ (Len(last.before.Alpha) > 0) =>
               (frame.Alpha = RowsOf(last.before.Alpha, last.before.Width,
                                     last.args[2], last.args[4],
                                     last.args[3], last.args[1]))
         /\ frame.Cb = ChromaRowsByProduct(last.before.Cb, last.before,
                                           last.args)
         /\ frame.Cr = ChromaRowsByProduct(last.before.Cr, last.before,
                                           last.args))

\* An in-bounds Crop of a frame whose width is no multiple of xs has
\* returned chroma rows that the stride W/xs does not select.
C14_Witness ==
    /\ CroppedInBounds
    /\ last.err = "nil"
    /\ Len(frame.Cb) > 0
    /\ frame.Cb # ChromaRowsOf(last.before.Cb, last.before, last.args)
    /\ frame.Cb = ChromaRowsByProduct(last.before.Cb, last.before, last.args)

\* The same for frames whose width is a multiple of xs.
CropCopiesRowsOfWholeWidths ==
    (/\ CroppedInBounds
     /\ last.before.Width % xSubsamplingFactor(last.before.Chroma) = 0)
        => RowsAsClaimed

---------------------------------------------------------------------------
\* Parsing a header line, serializing the stream and parsing the result
\* (specification SpecHeader).

\* The fields a header line is made of: widths and heights (signed, with a
\* leading zero), chromas, interlacing codes, ratios, metadata, a reserved Y
\* field, empty values, and fields that do not parse.
HeaderFieldPool ==
    {<<"W", "4">>, <<"W", "+", "3">>, <<"W", "-", "3">>, <<"H", "0", "2">>, <<"H", "1", "0">>,
     <<"C", "4", "2", "2">>, <<"C", "m", "o", "n", "o">>, <<"C">>,
     <<"I", "p">>, <<"I">>,
     <<"F", "3", "0", ":", "1">>, <<"F", "-", "1", ":", "+", "2">>,
     <<"A", "1", ":", "1">>, <<"A", "0", "0", ":", "7">>,
     <<"X", "a">>, <<"X">>, <<"X", "b", ":", "c">>,
     <<"Y", "z">>,
     <<"W", "x">>, <<"F", "1">>, <<"F", "1", ":", "2", ":", "3">>,
     <<"Z", "9">>, <<"A", ":", "1">>}

\* What separates the fields of a header line.
HeaderSeparators == {<<" ">>, <<"\t", " ">>}

RECURSIVE JoinFields(_, _, _)
JoinFields(fields, sep, k) ==
    IF k > Len(fields) THEN <<>>
    ELSE sep \o fields[k] \o JoinFields(fields, sep, k + 1)

\* The sequences of at most n fields of the pool.
RECURSIVE FieldSeqs(_)
FieldSeqs(n) ==
    IF n = 0 THEN {<<>>}
    ELSE FieldSeqs(n - 1)
            \cup {Append(fs, fld) : fs \in FieldSeqs(n - 1), fld \in HeaderFieldPool}

HeaderLines ==
    {streamMagicString \o JoinFields(fs, sep, 1) \o <<"\n">> :
        fs \in FieldSeqs(MaxFields), sep \in HeaderSeparators}

\* The last step of the round trip and its error.
Trip(op, err) == [op |-> op, err |-> err]

InitHeader ==
    /\ file \in HeaderLines
    /\ stream = ZeroStream
    /\ pos = 0
    /\ last = Trip("HeaderLine", "nil")
    /\ frame = ZeroFrame
    /\ outs = ZeroStream
    /\ outfile = <<>>

OpenedAs(o) ==
    /\ stream' = o.s
    /\ pos' = o.pos
    /\ last' = Trip("Open", o.err)

\* Open on the file that holds the header line.
DoOpen ==
    /\ last.op = "HeaderLine"
    /\ OpenedAs(Open(file))
    /\ UNCHANGED <<file, frame, outs, outfile>>

\* The caller writes the stream's Header() to a new file.
DoHeader ==
    /\ last = Trip("Open", "nil")
    /\ outfile' = Header(stream)
    /\ last' = Trip("Header", "nil")
    /\ UNCHANGED <<file, pos, stream, frame, outs>>

ReopenedAs(o) ==
    /\ outs' = o.s
    /\ last' = Trip("Reopen", o.err)

\* Open on that file, into a fresh stream.
DoReopen ==
    /\ last.op = "Header"
    /\ ReopenedAs(Open(outfile))
    /\ UNCHANGED <<file, pos, stream, frame, outfile>>

NextHeader == DoOpen \/ DoHeader \/ DoReopen

SpecHeader == InitHeader /\ [][NextHeader]_vars

\* C6: for every valid header line, parsing it, serializing the result with
\* Header() and parsing that into a fresh stream succeeds and yields the same
\* Width, Height, Chroma, Interlacing, FrameRate, SampleAspectRatio and the
\* same Metadata entries in the same order as the first parse.
C6_HeaderRoundTrip ==
    (last.op = "Reopen") =>
        (/\ last.err = "nil"
         /\ outs.Width = stream.Width
         /\ outs.Height = stream.Height
         /\ outs.Chroma = stream.Chroma
         /\ outs.Interlacing = stream.Interlacing
         /\ outs.FrameRate = stream.FrameRate
         /\ outs.SampleAspectRatio = stream.SampleAspectRatio
         /\ outs.Metadata = stream.Metadata
         /\ outs.XSubsamplingFactor = stream.XSubsamplingFactor
         /\ outs.YSubsamplingFactor = stream.YSubsamplingFactor)

\* A header line with two metadata fields and nothing else has made the
\* round trip: the serialized line differs from it, the defaults filled in.
C6_Witness ==
    /\ last.op = "Reopen"
    /\ Len(stream.Metadata) = 2
    /\ stream.Metadata[1] # stream.Metadata[2]
    /\ stream.Chroma = Tag420jpeg
    /\ stream.Interlacing = <<"?">>
    /\ stream.FrameRate = <<0, 0>>
    /\ outfile # file
    /\ outs.Metadata = stream.Metadata

---------------------------------------------------------------------------
\* Writing a stream and reading it back (specification SpecWrite).  Writes
\* to the file are taken to succeed.

\* NewStream: a new Stream with the width and the height, on an empty file.
NewStream(w, h) == [ZeroStream EXCEPT !.Width = w, !.Height = h]

\* The caller's assignments to the output stream's fields before it writes
\* (as y4clip copies them from its input stream).
Populate(st, c) ==
    [st EXCEPT !.Chroma = c,
               !.FrameRate = <<30, 1>>,
               !.Interlacing = <<"p">>,
               !.Metadata = <<<<"a", "=", "b">>>>,
               !.SampleAspectRatio = <<1, 1>>,
               !.XSubsamplingFactor = xSubsamplingFactor(c),
               !.YSubsamplingFactor = ySubsamplingFactor(c)]

\* Stream.WriteHeader on a file that holds the bytes out.
WriteHeader(st, out) == [err |-> "nil", out |-> out \o Header(st)]

\* Stream.WriteFrameHeader: frame.Header.Raw dereferences the header.
WriteFrameHeader(fr, out) ==
    IF fr.Header.isNil THEN [err |-> "panic", out |-> out]
    ELSE [err |-> "nil", out |-> out \o fr.Header.Raw]

\* Stream.WriteFrameData.
WriteFrameData(fr, out) ==
    [err |-> "nil", out |-> out \o fr.Y \o fr.Cb \o fr.Cr \o fr.Alpha]

\* The last step on the output file: the operation, its error, the write
\* operations so far in order, and the frame ParseFrame returned.
Step(op, err, log, parsed) ==
    [op |-> op, err |-> err, log |-> log, parsed |-> parsed]

\* A frame as ParseFrame yields it, its header parsed from the line hl.
WrittenFrame(w, h, c, hl) ==
    [MakeFrame(w, h, c) EXCEPT !.Header = ParseFrameHeader(hl, 0).h]

InitWrite ==
    /\ \E w \in 1..MaxWidth, h \in 1..MaxHeight, c \in ChromaTags,
          hl \in FrameHeaderLines, populated \in BOOLEAN :
          /\ outs = (IF populated THEN Populate(NewStream(w, h), c)
                     ELSE NewStream(w, h))
          /\ frame = WrittenFrame(w, h, c, hl)
    /\ outfile = <<>>
    /\ last = Step("NewStream", "nil", <<>>, ZeroFrame)
    /\ file = <<>>
    /\ pos = 0
    /\ stream = ZeroStream

\* The output stream is still being written.
Writing ==
    /\ last.op \in {"NewStream", "WriteHeader", "WriteFrameHeader", "WriteFrameData"}
    /\ last.err = "nil"

Wrote(op, r) ==
    /\ outfile' = r.out
    /\ last' = Step(op, r.err, Append(last.log, op), ZeroFrame)

DoWriteHeader ==
    /\ Writing
    /\ Len(last.log) < MaxWrites
    /\ Wrote("WriteHeader", WriteHeader(outs, outfile))
    /\ UNCHANGED <<file, pos, stream, frame, outs>>

DoWriteFrameHeader ==
    /\ Writing
    /\ Len(last.log) < MaxWrites
    /\ Wrote("WriteFrameHeader", WriteFrameHeader(frame, outfile))
    /\ UNCHANGED <<file, pos, stream, frame, outs>>

DoWriteFrameData ==
    /\ Writing
    /\ Len(last.log) < MaxWrites
    /\ Wrote("WriteFrameData", WriteFrameData(frame, outfile))
    /\ UNCHANGED <<file, pos, stream, frame, outs>>

OpenedWritten(o) ==
    /\ stream' = o.s
    /\ pos' = o.pos
    /\ last' = Step("Open", o.err, last.log, ZeroFrame)

\* The written file is opened for reading.
DoOpenWritten ==
    /\ Writing
    /\ file' = outfile
    /\ OpenedWritten(Open(outfile))
    /\ UNCHANGED <<frame, outs, outfile>>

ParsedWritten(r) ==
    /\ pos' = r.pos
    /\ last' = Step("ParseFrame", r.err, last.log, r.frame)

\* ParseFrame, once, on the reopened stream.
DoParseWritten ==
    /\ last.op = "Open"
    /\ last.err = "nil"
    /\ ParsedWritten(ParseFrame(file, stream, pos))
    /\ UNCHANGED <<file, stream, frame, outs, outfile>>

NextWrite ==
    \/ DoWriteHeader
    \/ DoWriteFrameHeader
    \/ DoWriteFrameData
    \/ DoOpenWritten
    \/ DoParseWritten

SpecWrite == InitWrite /\ [][NextWrite]_vars

\* The file was written by WriteHeader, WriteFrameHeader, WriteFrameData on
\* a stream whose header fields the caller populated.
WroteOneFrame ==
    /\ last.log = <<"WriteHeader", "WriteFrameHeader", "WriteFrameData">>
    /\ outs.FrameRate # NilRatio

\* The reopened stream and the parsed frame are those that were written.
ReadBackSame ==
    /\ last.err = "nil"
    /\ stream.Width = outs.Width
    /\ stream.Height = outs.Height
    /\ stream.Chroma = outs.Chroma
    /\ last.parsed.Width = outs.Width
    /\ last.parsed.Height = outs.Height
    /\ last.parsed.Chroma = outs.Chroma
    /\ last.parsed.Y = frame.Y
    /\ last.parsed.Cb = frame.Cb
    /\ last.parsed.Cr = frame.Cr
    /\ last.parsed.Alpha = frame.Alpha

\* C7: writing WriteHeader, WriteFrameHeader(frame), WriteFrameData(frame) to
\* a fresh populated output stream, reopening the file with Open and calling
\* ParseFrame once reproduces the output stream's Width, Height and Chroma
\* and Y, Cb, Cr, Alpha byte-identical to the written frame's.
C7_WriteReadRoundTrip ==
    (last.op = "ParseFrame" /\ WroteOneFrame) => ReadBackSame

\* The same for the chromas with an entry in both subsampling tables, and
\* for mono.
WriteReadRoundTripOnSizedChromas ==
    (/\ last.op = "ParseFrame"
     /\ WroteOneFrame
     /\ outs.Chroma \in TableChromas \cup {TagMono}) => ReadBackSame

\* The file offsets of f at which the stream magic starts.
StreamMagicOffsets(f) ==
    {q \in 0..Len(f) :
        /\ q + Len(streamMagicString) <= Len(f)
        /\ SubSeq(f, q + 1, q + Len(streamMagicString)) = streamMagicString}

\* C12: in every sequence of WriteHeader, WriteFrameHeader and WriteFrameData
\* calls on one output stream, in any order and number, the stream header is
\* in the file at most once, and then before every frame header and frame
\* data byte: it starts at offset 0 and nowhere else.
C12_HeaderOnceAndFirst == StreamMagicOffsets(outfile) \subseteq {0}

\* The writes so far are in y4clip's order: WriteHeader first or not at all.
ClipOrder ==
    \A i \in 2..Len(last.log) : last.log[i] # "WriteHeader"

\* The same for the sequences of writes that y4clip makes.
HeaderOnceAndFirstInClipOrder ==
    ClipOrder => (StreamMagicOffsets(outfile) \subseteq {0})

---------------------------------------------------------------------------
\* Converting a frame to an image (specification SpecImage).

\* No image: what a call that does not return leaves.
NoImage ==
    [kind |-> "none", ssr |-> "", Y |-> <<>>, Cb |-> <<>>, Cr |-> <<>>,
     A |-> <<>>, Pix |-> <<>>, W |-> 0, H |-> 0]

\* Image's switch on f.Chroma: the image.YCbCrSubsampleRatio, whose zero
\* value is YCbCrSubsampleRatio444.  (The case "mono" does not return.)
SubsampleRatio(c) ==
    CASE c \in {Tag444, Tag444alpha} -> "444"
      [] c = Tag422 -> "422"
      [] c \in {Tag420jpeg, Tag420mpeg2, Tag420paldv} -> "420"
      [] c = Tag411 -> "411"
      [] OTHER -> "444"

\* Image after its switch: the image built from the planes.
ImageOf(f, ssr) ==
    IF Len(f.Alpha) > 0
    THEN [err |-> "nil",
          img |-> [NoImage EXCEPT !.kind = "NYCbCrA", !.ssr = ssr, !.Y = f.Y,
                                  !.Cb = f.Cb, !.Cr = f.Cr, !.A = f.Alpha,
                                  !.W = f.Width, !.H = f.Height]]
    ELSE IF f.Chroma = TagMono
    THEN [err |-> "nil",
          img |-> [NoImage EXCEPT !.kind = "Gray", !.Pix = f.Y,
                                  !.W = f.Width, !.H = f.Height]]
    ELSE [err |-> "nil",
          img |-> [NoImage EXCEPT !.kind = "YCbCr", !.ssr = ssr, !.Y = f.Y,
                                  !.Cb = f.Cb, !.Cr = f.Cr,
                                  !.W = f.Width, !.H = f.Height]]

\* Frame.Image: log.Fatal in the case "mono" ends the program.
Image(f) ==
    IF f.Chroma = TagMono THEN [err |-> "fatal", img |-> NoImage]
    ELSE ImageOf(f, SubsampleRatio(f.Chroma))

\* A decoded frame of chroma c, with an alpha plane of w*h bytes or without.
ImageFrame(w, h, c, alpha) ==
    [MakeFrame(w, h, c) EXCEPT
        !.Alpha = IF alpha THEN PlaneBytes(w * h, 17) ELSE <<>>]

\* The last call on the frame and what it returned.
Imaged(op, r) == [op |-> op, err |-> r.err, img |-> r.img]

InitImage ==
    /\ \E w \in 1..MaxWidth, h \in 1..MaxHeight,
          c \in ChromaTags \cup {TagOther}, alpha \in BOOLEAN :
          frame = ImageFrame(w, h, c, alpha)
    /\ last = Imaged("NewFrame", [err |-> "nil", img |-> NoImage])
    /\ file = <<>>
    /\ pos = 0
    /\ stream = ZeroStream
    /\ outs = ZeroStream
    /\ outfile = <<>>

DoImage ==
    /\ last.err # "fatal"
    /\ last' = Imaged("Image", Image(frame))
    /\ UNCHANGED <<file, pos, stream, frame, outs, outfile>>

NextImage == DoImage

SpecImage == InitImage /\ [][NextImage]_vars

\* The subsampling descriptor of the chroma family of tag c.
FamilyOf(c) ==
    CASE c \in {Tag444, Tag444alpha} -> "444"
      [] c = Tag422 -> "422"
      [] c = Tag411 -> "411"
      [] OTHER -> "420"

\* C13: Image maps the frame by (chroma, alpha present): with a non-empty
\* Alpha it yields planar YCbCr with alpha; with Chroma mono and an empty
\* Alpha a grayscale image whose pixels are Y; otherwise planar YCbCr with
\* the subsampling descriptor of the chroma family; and it rejects the frame
\* only when Chroma is mono and Alpha is non-empty.
C13_ImageByChromaAndAlpha ==
    (last.op = "Image" /\ frame.Chroma \in ChromaTags) =>
        (/\ (last.err = "fatal")
                <=> (frame.Chroma = TagMono /\ Len(frame.Alpha) > 0)
         /\ (Len(frame.Alpha) > 0 /\ frame.Chroma # TagMono) =>
                (/\ last.img.kind = "NYCbCrA"
                 /\ last.img.ssr = FamilyOf(frame.Chroma)
                 /\ last.img.Y = frame.Y
                 /\ last.img.Cb = frame.Cb
                 /\ last.img.Cr = frame.Cr
                 /\ last.img.A = frame.Alpha)
         /\ (Len(frame.Alpha) = 0 /\ frame.Chroma = TagMono) =>
                (last.img.kind = "Gray" /\ last.img.Pix = frame.Y)
         /\ (Len(frame.Alpha) = 0 /\ frame.Chroma # TagMono) =>
                (/\ last.img.kind = "YCbCr"
                 /\ last.img.ssr = FamilyOf(frame.Chroma)
                 /\ last.img.Y = frame.Y
                 /\ last.img.Cb = frame.Cb
                 /\ last.img.Cr = frame.Cr))

\* The same for every frame that is not mono.
ImageByChromaAndAlphaNotMono ==
    (frame.Chroma # TagMono) => C13_ImageByChromaAndAlpha

====
